---- MODULE Spec2Model ----
(***************************************************************************)
(* Dead-by-Daylight match log GUI: the statistics window.                  *)
(*                                                                         *)
(*  - StatisticsWorker (a QThread) runs the three calculator calls and     *)
(*    emits calculationFinished; StatisticsWindow (a QDialog) starts it in *)
(*    exec_, renders the results in __setupUIForStatistics and re-enables  *)
(*    its close button in enableCloseButton.                               *)
(*  - The chart builders of StatisticsWindow turn histograms into a        *)
(*    category axis, a value axis and bar sets.                            *)
(***************************************************************************)
EXTENDS Integers, Sequences, FiniteSets, TLC

\* ------------------------------------------------------------------ bounds
\* how many times exec_ is called on the one window
MaxExec == 2
\* largest count a histogram of the chart specification holds
MaxCount == 2

\* ------------------------------------------------------------ Python values
\* Python's None
None == [none |-> TRUE]
\* a local variable of run() that has not been assigned yet
Unset == [unset |-> TRUE]
\* the outcome of an expression that raised
Raised(exc) == [raised |-> exc]
IsRaised(v) == "raised" \in DOMAIN v

\* ------------------------------------------------- ordered mappings (dict)
\* A dict is the sequence of its <<key, value>> items in insertion order.
Keys(d) == [i \in 1..Len(d) |-> d[i][1]]
Values(d) == [i \in 1..Len(d) |-> d[i][2]]
HasKey(d, k) == \E i \in 1..Len(d) : d[i][1] = k
\* d[k]; callers test HasKey first (a missing key raises KeyError)
Get(d, k) == d[CHOOSE i \in 1..Len(d) : d[i][1] = k][2]

\* ------------------------------------------------------------ domain values
\* models.Killer / models.Survivor objects as the charts read them
KillerA == [killerAlias |-> "Trapper"]
KillerB == [killerAlias |-> "Nurse"]
Killers == {KillerA, KillerB}
SurvivorA == [survivorName |-> "Meg"]
SurvivorB == [survivorName |-> "Dwight"]
Survivors == {SurvivorA, SurvivorB}
\* the enumerations, as the sequence of their members in declaration order
FacedSurvivorState == <<[name |-> "Sacrificed"], [name |-> "BledOut"]>>
SurvivorMatchResult == <<[name |-> "Escaped"], [name |-> "HatchEscape"]>>
Members(enum) == {enum[i] : i \in 1..Len(enum)}

\* ' '.join(splitUpper(name)): the name split before each capital letter
SplitUpperJoin(name) ==
  CASE name = "Sacrificed" -> "Sacrificed"
    [] name = "BledOut" -> "Bled Out"
    [] name = "Escaped" -> "Escaped"
    [] name = "HatchEscape" -> "Hatch Escape"

\* dataclasses.astuple(EliminationInfo): the fields in declaration order
AsTuple(info) == <<info.kills, info.sacrifices, info.disconnects>>

\* ------------------------------------------------------- Python built-ins
RECURSIVE RunningMax(_, _)
\* the loops' "if count > maxVal: maxVal = count" over the counts in loop order
RunningMax(counts, maxVal) ==
  IF counts = <<>> THEN maxVal
  ELSE RunningMax(Tail(counts), IF Head(counts) > maxVal THEN Head(counts) ELSE maxVal)

\* max(iterable) of a non-empty iterable; on an empty one it raises ValueError
PyMax(values) == RunningMax(Tail(values), Head(values))
PyMaxRaises(values) == values = <<>>

RECURSIVE Flatten(_)
\* the counts of all bar sets, bar set by bar set
Flatten(seqs) == IF seqs = <<>> THEN <<>> ELSE Head(seqs) \o Flatten(Tail(seqs))

\* -------------------------------------------------------- chart plumbing
\* __barSeriesAxes: category axis labels and the value axis range
BarSeriesAxes(minVal, maxVal, categories) ==
  [categories |-> categories, range |-> <<minVal, maxVal>>]

\* __barSeries, __barChart, __barChartView: the bar sets attached to the axes
BarChartView(title, axes, barSets) ==
  [title |-> title, categories |-> axes.categories, range |-> axes.range,
   barSets |-> barSets]

\* QBarSet(label) after its append() calls
BarSet(label, values) == [label |-> label, values |-> values]

\* a chart builder whose histogram lookup or max() raised builds nothing
OrRaise(emptyMax, missingKey, view) ==
  IF emptyMax THEN Raised("ValueError")
  ELSE IF missingKey THEN Raised("KeyError")
  ELSE view

\* (mutant) the maximum tracked over the first bar set only
LoopMaxValFirstSeries(barSets) == RunningMax(barSets[1].values, 0)
\* maxVal of the multi-series builders: the maximum tracked in the nested loop,
\* over every bar set
LoopMaxVal(barSets) ==
  RunningMax(Flatten([j \in 1..Len(barSets) |-> barSets[j].values]), 0)

\* the bar sets of the per-survivor charts: one per enum member, holding
\* histogram[survivor][member] for each survivor in key order
EnumBarSets(enum, histogram) ==
  [j \in 1..Len(enum) |->
     BarSet(SplitUpperJoin(enum[j].name),
            [i \in 1..Len(histogram) |-> histogram[i][2][enum[j]]])]

\* ----------------------------------------------------------- chart builders
SetupFacedSurvivorStatesChart(killerStats) ==
  LET hist == killerStats.facedSurvivorStatesHistogram
      barSets == EnumBarSets(FacedSurvivorState, hist)
      maxVal == LoopMaxVal(barSets)
      axes == BarSeriesAxes(0, maxVal,
                [i \in 1..Len(hist) |-> Keys(hist)[i].survivorName])
  IN  BarChartView("Faced survivors' fates", axes, barSets)

SetupTotalStatesChart(killerStats) ==
  LET hist == killerStats.totalSurvivorStatesHistogram
      maxVal == PyMax(Values(hist))
      labels == [i \in 1..Len(FacedSurvivorState) |->
                   SplitUpperJoin(FacedSurvivorState[i].name)]
      missing == \E i \in 1..Len(FacedSurvivorState) :
                   ~HasKey(hist, FacedSurvivorState[i])
      barset == BarSet("Survivor state",
                  [i \in 1..Len(FacedSurvivorState) |->
                     Get(hist, FacedSurvivorState[i])])
  IN  OrRaise(PyMaxRaises(Values(hist)), missing,
        BarChartView("Total survivor states", BarSeriesAxes(0, maxVal, labels),
                     <<barset>>))

SetupEliminationsChart(killerStats) ==
  LET elims == killerStats.totalKillerEliminations
      names == <<"Sacrifices", "Kills", "Disconnects">>
      barSets == [j \in 1..3 |->
                    BarSet(names[j],
                           [i \in 1..Len(elims) |-> AsTuple(elims[i][2])[j]])]
      maxVal == LoopMaxVal(barSets)
      axes == BarSeriesAxes(0, maxVal,
                [i \in 1..Len(elims) |-> Keys(elims)[i].killerAlias])
  IN  BarChartView("Total killer eliminations", axes, barSets)

\* the four single-series builders share one shape: max(hist.values()), the
\* labels and the values both in key order
KeyOrderChart(hist, labels, setLabel, title) ==
  LET maxVal == PyMax(Values(hist))
  IN  OrRaise(PyMaxRaises(Values(hist)), FALSE,
        BarChartView(title, BarSeriesAxes(0, maxVal, labels),
                     <<BarSet(setLabel, Values(hist))>>))

SetupKillerGamesChart(killerStats) ==
  LET hist == killerStats.gamesPlayedWithKiller
  IN  KeyOrderChart(hist, [i \in 1..Len(hist) |-> Keys(hist)[i].killerAlias],
                    "Games with certain killer", "Games played with each killer")

SetupAverageKillsChart(killerStats) ==
  LET hist == killerStats.averageKillerKillsPerMatch
  IN  KeyOrderChart(hist, [i \in 1..Len(hist) |-> Keys(hist)[i].killerAlias],
                    "Average kills per match", "Average kills per match by killer")

SetupFacedKillerHistogramChart(survivorStats) ==
  LET hist == survivorStats.facedKillerHistogram
  IN  KeyOrderChart(hist, [i \in 1..Len(hist) |-> Keys(hist)[i].killerAlias],
                    "Faced killers", "Faced killers frequency")

SetupSurvivorGamesChart(survivorStats) ==
  LET hist == survivorStats.gamesPlayedWithSurvivor
  IN  KeyOrderChart(hist, [i \in 1..Len(hist) |-> Keys(hist)[i].survivorName],
                    "Games with survivor", "Total games with each survivor")

\* labels from the enumeration, values from the histogram's own key order
SetupMatchResultsHistogramChart(survivorStats) ==
  LET hist == survivorStats.matchResultsHistogram
  IN  KeyOrderChart(hist,
                    [i \in 1..Len(SurvivorMatchResult) |->
                       SplitUpperJoin(SurvivorMatchResult[i].name)],
                    "Match results", "Total survivor match results")

SetupSurvivorMatchResultsHistogramChart(survivorStats) ==
  LET hist == survivorStats.survivorsMatchResultsHistogram
      barSets == EnumBarSets(SurvivorMatchResult, hist)
      maxVal == LoopMaxVal(barSets)
      axes == BarSeriesAxes(0, maxVal,
                [i \in 1..Len(hist) |-> Keys(hist)[i].survivorName])
  IN  BarChartView("Individual survivors' match results", axes, barSets)

\* the chart view a builder, named as in "__setup<builder>Chart", returns
ChartView(builder, stats) ==
  CASE builder = "FacedSurvivorStates" -> SetupFacedSurvivorStatesChart(stats)
    [] builder = "TotalStates" -> SetupTotalStatesChart(stats)
    [] builder = "Eliminations" -> SetupEliminationsChart(stats)
    [] builder = "KillerGames" -> SetupKillerGamesChart(stats)
    [] builder = "AverageKills" -> SetupAverageKillsChart(stats)
    [] builder = "FacedKillerHistogram" -> SetupFacedKillerHistogramChart(stats)
    [] builder = "SurvivorGames" -> SetupSurvivorGamesChart(stats)
    [] builder = "MatchResultsHistogram" -> SetupMatchResultsHistogramChart(stats)
    [] builder = "SurvivorMatchResultsHistogram" ->
         SetupSurvivorMatchResultsHistogramChart(stats)

\* ------------------------------------------------------ calculator results
\* what StatisticsCalculator hands back: one general result, and for each role
\* either None (no match of that role) or a result object
GeneralStats == [totalGames |-> 3, totalPoints |-> 40000]
KillerStats ==
  [facedSurvivorStatesHistogram |->
     << <<SurvivorA, [m \in Members(FacedSurvivorState) |->
                        IF m.name = "Sacrificed" THEN 2 ELSE 0]>>,
        <<SurvivorB, [m \in Members(FacedSurvivorState) |-> 1]>> >>,
   gamesPlayedWithKiller |-> << <<KillerB, 1>>, <<KillerA, 2>> >>,
   totalSurvivorStatesHistogram |->
     << <<FacedSurvivorState[1], 3>>, <<FacedSurvivorState[2], 1>> >>,
   totalKillerEliminations |->
     << <<KillerA, [kills |-> 0, sacrifices |-> 2, disconnects |-> 1]>> >>,
   averageKillerKillsPerMatch |-> << <<KillerA, 2>> >>]
SurvivorStats ==
  [gamesPlayedWithSurvivor |-> << <<SurvivorB, 2>> >>,
   facedKillerHistogram |-> << <<KillerA, 1>>, <<KillerB, 1>> >>,
   survivorsMatchResultsHistogram |->
     << <<SurvivorB, [m \in Members(SurvivorMatchResult) |->
                        IF m.name = "Escaped" THEN 1 ELSE 0]>> >>,
   matchResultsHistogram |->
     << <<SurvivorMatchResult[1], 1>>, <<SurvivorMatchResult[2], 0>> >>]

CalculatorResults(call) ==
  CASE call = "calculateGeneral" -> {GeneralStats}
    [] call = "calculateKillerGeneral" -> {None, KillerStats}
    [] call = "calculateSurvivorGeneral" -> {None, SurvivorStats}

\* --------------------------------------------------------------- variables
VARIABLES
  windowFlags,     \* StatisticsWindow.windowFlags(), the hints that matter here
  spinning,        \* self.spinner is animating
  dlgLayout,       \* the layout installed on the dialog (self.layout())
  pendingLayouts,  \* the mainLayouts waiting for the old layout's destroyed signal
  visible,         \* the dialog is shown
  inExec,          \* QDialog.exec_'s modal event loop is running
  runs,            \* the executions of self.worker (a QThread), oldest first
  eventQueue,      \* events posted to the interactive thread, oldest first
  aborted,         \* the process was ended by an unhandled Python exception
  execCalls,       \* how many times exec_ was called
  chartInput,      \* chart specification: the builder to run and its statistics
  chartView,       \* chart specification: what the builder returned
  nameInput,       \* icon-name specification: the name an icon is looked up for
  iconNames,       \* icon-name specification: the table keys computed from it
  killerSelect,    \* a KillerSelect widget
  survivorSelect,  \* a FacedSurvivorSelect widget
  popup,           \* a GridViewSelectionPopup (AddonSelectPopup, OfferingSelectPopup)
  addonSelection,  \* an AddonSelection widget, with its AddonSelectPopup
  perkSelection,   \* a PerkSelection widget, with its PerkPopupSelect
  offeringSelection, \* an OfferingSelection widget, with its OfferingSelectPopup
  mapSelect,       \* a MapSelect widget
  survivorWindow   \* a FacedSurvivorSelectionWindow

uiVars == <<windowFlags, spinning, dlgLayout, pendingLayouts, visible, inExec>>
winVars == <<windowFlags, spinning, dlgLayout, pendingLayouts, visible, inExec,
             runs, eventQueue, aborted, execCalls>>
chartVars == <<chartInput, chartView>>
nameVars == <<nameInput, iconNames>>
selectVars == <<killerSelect, survivorSelect>>
\* the variables of the widgets in guicontrols.py
panelVars == <<addonSelection, perkSelection, offeringSelection, mapSelect,
               survivorWindow>>
ctlVars == <<nameInput, iconNames, killerSelect, survivorSelect, popup,
             addonSelection, perkSelection, offeringSelection, mapSelect,
             survivorWindow>>
vars == <<windowFlags, spinning, dlgLayout, pendingLayouts, visible, inExec,
          runs, eventQueue, aborted, execCalls, chartInput, chartView,
          nameInput, iconNames, killerSelect, survivorSelect, popup,
          addonSelection, perkSelection, offeringSelection, mapSelect,
          survivorWindow>>

CloseHint == "WindowCloseButtonHint"
NoChart == [builder |-> "none"]

\* ------------------------------------------------------- StatisticsWorker
\* (mutant) the killer computation is invoked before the general one
RunStepsKillerFirst ==
  << [call |-> "calculateKillerGeneral", var |-> "killer"],
     [call |-> "calculateGeneral", var |-> "general"],
     [call |-> "calculateSurvivorGeneral", var |-> "survivor"] >>
\* the body of run(): the calculator calls in program order, each with the
\* local variable it is assigned to
RunSteps ==
  << [call |-> "calculateGeneral", var |-> "general"],
     [call |-> "calculateKillerGeneral", var |-> "killer"],
     [call |-> "calculateSurvivorGeneral", var |-> "survivor"] >>

\* a thread execution about to enter run()
NewThread ==
  [pc |-> "call", idx |-> 1,
   locals |-> [general |-> Unset, killer |-> Unset, survivor |-> Unset],
   calls |-> <<>>,     \* history: <<"call" or "return", calculator method>>
   returned |-> <<>>,  \* history: <<calculator method, value it returned>>
   emits |-> 0,        \* history: emissions of calculationFinished
   raised |-> FALSE]   \* history: a calculator call raised

IsRunning(t) == t.pc # "done"

\* (mutant) exec_ builds and starts a fresh worker on every call
StartWorkerFresh(rs) == Append(rs, NewThread)
\* self.worker.start(): the window owns one QThread; start() does nothing
\* while that thread is running and runs it again once it has finished
StartWorker(rs) ==
  IF \E r \in 1..Len(rs) : IsRunning(rs[r]) THEN rs ELSE Append(rs, NewThread)

\* (mutant) the notification is emitted as soon as one computation returned
AfterReturnEmitEarly(t) == [t EXCEPT !.pc = "emit"]
\* where run() continues after a calculator call returned
AfterReturn(t) ==
  IF t.idx < Len(RunSteps) THEN [t EXCEPT !.pc = "call", !.idx = t.idx + 1]
  ELSE [t EXCEPT !.pc = "emit"]

\* (mutant) run() catches the exception, takes the result as None and goes on
AfterRaiseCaught(t) ==
  AfterReturn([t EXCEPT !.raised = TRUE, !.locals[RunSteps[t.idx].var] = None])
\* a calculator call raised: run() has no handler, the exception leaves run()
AfterRaise(t) == [t EXCEPT !.raised = TRUE, !.pc = "raised"]

\* (mutant) the killer and survivor results change places in the emission
EmitArgsSwapped(locals) == <<locals.general, locals.survivor, locals.killer>>
\* the arguments of self.calculationFinished.emit(general, killer, survivor)
EmitArgs(locals) == <<locals.general, locals.killer, locals.survivor>>

\* --------------------------------------------------- signal connections
\* (mutant) the slot is invoked directly, in the emitting thread
CalculationFinishedDirect == "direct"
\* calculationFinished.connect(__setupUIForStatistics): an auto connection from
\* a signal emitted in the worker thread to a receiver living in the
\* interactive thread is queued
CalculationFinishedConnection == "queued"

\* (mutant) nothing is connected to the thread's finished signal
FinishedSlotMissing == "none"
\* worker.finished.connect(enableCloseButton)
FinishedSlot == "enableCloseButton"

\* ------------------------------------------------------ StatisticsWindow
KillerEmptyState == "Nothing to see here. No killer matches present."
SurvivorEmptyState == "Nothing to see here. No survivor matches present."

\* A tab lists the chart views added to it by the name of their builder, in the
\* order they are added; the view itself is ChartView(builder, stats) of the
\* statistics the tab was built from.
\* (mutant) the killer tab is decided by the survivor result
KillerStatsTabBySurvivor(killerStats, survivorStats) ==
  IF survivorStats = None
  THEN [label |-> KillerEmptyState, charts |-> <<>>]
  ELSE [label |-> "General killer match statistics", charts |-> <<>>]
\* "killer stats setup": the content of the killer tab
KillerStatsTab(killerStats, survivorStats) ==
  IF killerStats = None
  THEN [label |-> KillerEmptyState, charts |-> <<>>]
  ELSE [label |-> "General killer match statistics",
        charts |-> << "FacedSurvivorStates", "KillerGames", "TotalStates",
                      "Eliminations", "AverageKills" >>]

\* "survivor stats setup": the content of the survivor tab
SurvivorStatsTab(killerStats, survivorStats) ==
  IF survivorStats = None
  THEN [label |-> SurvivorEmptyState, charts |-> <<>>]
  ELSE [label |-> "General survivor match statistics",
        charts |-> << "SurvivorGames", "FacedKillerHistogram",
                      "SurvivorMatchResultsHistogram", "MatchResultsHistogram" >>]

\* the "Calculating..." layout built by __init__
CalculatingLayout == [kind |-> "calculating"]
\* a layout emptied by clearLayout and handed to deleteLater
DeletingLayout == [kind |-> "deleting"]
\* mainLayout as __setupUIForStatistics builds it; stats is what it was called with
MainLayout(generalStats, killerStats, survivorStats) ==
  [kind |-> "statistics",
   stats |-> <<generalStats, killerStats, survivorStats>>,
   general |-> generalStats,
   killerTab |-> KillerStatsTab(killerStats, survivorStats),
   survivorTab |-> SurvivorStatsTab(killerStats, survivorStats)]

\* the effect of __setupUIForStatistics on the window, posting to queue q: the
\* spinner stops, the installed layout is emptied and scheduled for deletion
\* (one deferred delete per object) and mainLayout waits for its destroyed signal
SetupUIForStatisticsBody(args, q) ==
  /\ spinning' = FALSE
  /\ dlgLayout' = DeletingLayout
  /\ pendingLayouts' = Append(pendingLayouts, MainLayout(args[1], args[2], args[3]))
  /\ eventQueue' = IF dlgLayout = DeletingLayout THEN q
                   ELSE Append(q, [sig |-> "destroyed"])
  /\ UNCHANGED <<windowFlags, visible, inExec>>

\* ------------------------------------------------------------------ states
WinInit ==
  /\ windowFlags = {"CustomizeWindowHint", CloseHint}
  /\ spinning = FALSE
  /\ dlgLayout = CalculatingLayout
  /\ pendingLayouts = <<>>
  /\ visible = FALSE
  /\ inExec = FALSE
  /\ runs = <<>>
  /\ eventQueue = <<>>
  /\ aborted = FALSE
  /\ execCalls = 0

\* no chart builder has been handed anything
ChartIdle == chartInput = NoChart /\ chartView = NoChart
\* no icon name is being computed
NoName == [name |-> "none"]
NameIdle == nameInput = NoName /\ iconNames = <<>>
\* a widget that has not been constructed
NoWidget == [widget |-> "none"]
SelectIdle == killerSelect = NoWidget /\ survivorSelect = NoWidget
PopupIdle == popup = NoWidget
PanelIdle ==
  /\ addonSelection = NoWidget /\ perkSelection = NoWidget
  /\ offeringSelection = NoWidget /\ mapSelect = NoWidget
  /\ survivorWindow = NoWidget
CtlIdle == NameIdle /\ SelectIdle /\ PopupIdle /\ PanelIdle

Init == WinInit /\ ChartIdle /\ CtlIdle

\* ------------------------------------------------- interactive context
\* StatisticsWindow.exec_
Exec ==
  /\ ~aborted /\ ~inExec /\ execCalls < MaxExec
  /\ windowFlags' = windowFlags \ {CloseHint}
  /\ spinning' = TRUE
  /\ runs' = StartWorker(runs)
  /\ inExec' = TRUE
  /\ visible' = TRUE
  /\ execCalls' = execCalls + 1
  /\ UNCHANGED <<dlgLayout, pendingLayouts, eventQueue, aborted, chartVars, ctlVars>>

\* the user clicks the title bar's close button: closeEvent
CloseEvent ==
  /\ ~aborted /\ visible /\ CloseHint \in windowFlags
  /\ visible' = FALSE
  /\ inExec' = FALSE
  /\ UNCHANGED <<windowFlags, spinning, dlgLayout, pendingLayouts, runs,
                 eventQueue, aborted, execCalls, chartVars, ctlVars>>

\* the user presses Escape: QDialog.reject, which no window flag prevents
Reject ==
  /\ ~aborted /\ visible
  /\ visible' = FALSE
  /\ inExec' = FALSE
  /\ UNCHANGED <<windowFlags, spinning, dlgLayout, pendingLayouts, runs,
                 eventQueue, aborted, execCalls, chartVars, ctlVars>>

\* the queued calculationFinished reaches its slot, __setupUIForStatistics
SetupUIForStatistics ==
  /\ ~aborted /\ eventQueue # <<>>
  /\ Head(eventQueue).sig = "calculationFinished"
  /\ SetupUIForStatisticsBody(Head(eventQueue).args, Tail(eventQueue))
  /\ UNCHANGED <<runs, aborted, execCalls, chartVars, ctlVars>>

\* the old layout is deleted: every lambda connected to destroyed calls
\* setLayout; the first installs its mainLayout, a widget that has a layout
\* refuses another
LayoutDestroyed ==
  /\ ~aborted /\ eventQueue # <<>>
  /\ Head(eventQueue).sig = "destroyed"
  /\ dlgLayout' = Head(pendingLayouts)
  /\ pendingLayouts' = <<>>
  /\ eventQueue' = Tail(eventQueue)
  /\ UNCHANGED <<windowFlags, spinning, visible, inExec, runs, aborted,
                 execCalls, chartVars, ctlVars>>

\* the queued finished reaches its slot, enableCloseButton: setWindowFlags
\* hides the dialog, which ends a running exec_, and show() brings it back
EnableCloseButton ==
  /\ ~aborted /\ eventQueue # <<>>
  /\ Head(eventQueue).sig = "finished"
  /\ windowFlags' = windowFlags \cup {CloseHint}
  /\ visible' = TRUE
  /\ inExec' = FALSE
  /\ eventQueue' = Tail(eventQueue)
  /\ UNCHANGED <<spinning, dlgLayout, pendingLayouts, runs, aborted, execCalls,
                 chartVars, ctlVars>>

\* ------------------------------------------------------ worker context
\* run() enters the next calculator call
CallCalculator(r) ==
  /\ ~aborted /\ runs[r].pc = "call"
  /\ runs' = [runs EXCEPT ![r].pc = "wait",
                          ![r].calls = Append(@, <<"call", RunSteps[runs[r].idx].call>>)]
  /\ UNCHANGED <<uiVars, eventQueue, aborted, execCalls, chartVars, ctlVars>>

\* the call returns v, which run() assigns to its local variable
CalculatorReturns(r) ==
  /\ ~aborted /\ runs[r].pc = "wait"
  /\ LET step == RunSteps[runs[r].idx]
     IN  \E v \in CalculatorResults(step.call) :
           runs' = [runs EXCEPT ![r] =
                      AfterReturn([runs[r] EXCEPT
                        !.locals[step.var] = v,
                        !.calls = Append(@, <<"return", step.call>>),
                        !.returned = Append(@, <<step.call, v>>)])]
  /\ UNCHANGED <<uiVars, eventQueue, aborted, execCalls, chartVars, ctlVars>>

\* the call raises
CalculatorRaises(r) ==
  /\ ~aborted /\ runs[r].pc = "wait"
  /\ runs' = [runs EXCEPT ![r] = AfterRaise(runs[r])]
  /\ UNCHANGED <<uiVars, eventQueue, aborted, execCalls, chartVars, ctlVars>>

\* self.calculationFinished.emit(general, killer, survivor)
EmitCalculationFinished(r) ==
  /\ ~aborted /\ runs[r].pc = "emit"
  /\ runs' = [runs EXCEPT ![r].pc = "returned", ![r].emits = @ + 1]
  /\ IF CalculationFinishedConnection = "queued"
     THEN /\ eventQueue' = Append(eventQueue,
                             [sig |-> "calculationFinished", run |-> r,
                              args |-> EmitArgs(runs[r].locals)])
          /\ UNCHANGED uiVars
     ELSE SetupUIForStatisticsBody(EmitArgs(runs[r].locals), eventQueue)
  /\ UNCHANGED <<aborted, execCalls, chartVars, ctlVars>>

\* run() is over (it returned, or an exception left it and the installed
\* excepthook let the process live): QThread emits finished
ThreadFinished(r) ==
  /\ ~aborted /\ runs[r].pc \in {"returned", "raised"}
  /\ runs' = [runs EXCEPT ![r].pc = "done"]
  /\ eventQueue' = IF FinishedSlot = "enableCloseButton"
                   THEN Append(eventQueue, [sig |-> "finished", run |-> r])
                   ELSE eventQueue
  /\ UNCHANGED <<uiVars, aborted, execCalls, chartVars, ctlVars>>

\* an exception left run() and PyQt5's default excepthook aborts the process
ProcessAborts(r) ==
  /\ ~aborted /\ runs[r].pc = "raised"
  /\ aborted' = TRUE
  /\ UNCHANGED <<uiVars, runs, eventQueue, execCalls, chartVars, ctlVars>>

WorkerStep ==
  \E r \in 1..Len(runs) :
    \/ CallCalculator(r)
    \/ CalculatorReturns(r)
    \/ CalculatorRaises(r)
    \/ EmitCalculationFinished(r)
    \/ ThreadFinished(r)
    \/ ProcessAborts(r)

EventLoopStep == SetupUIForStatistics \/ LayoutDestroyed \/ EnableCloseButton

Next ==
  \/ Exec
  \/ CloseEvent
  \/ Reject
  \/ SetupUIForStatistics
  \/ LayoutDestroyed
  \/ EnableCloseButton
  \/ \E r \in 1..Len(runs) : CallCalculator(r)
  \/ \E r \in 1..Len(runs) : CalculatorReturns(r)
  \/ \E r \in 1..Len(runs) : CalculatorRaises(r)
  \/ \E r \in 1..Len(runs) : EmitCalculationFinished(r)
  \/ \E r \in 1..Len(runs) : ThreadFinished(r)
  \/ \E r \in 1..Len(runs) : ProcessAborts(r)

Spec == Init /\ [][Next]_vars

\* the thread scheduler lets a started worker run on, and the interactive
\* thread's event loop delivers every posted event
FairSpec == Spec /\ WF_vars(WorkerStep) /\ WF_vars(EventLoopStep)

\* ============================================================ chart builders
\* Each chart builder is a pure function of the statistics it is handed; the
\* chart specification draws one builder and one histogram for it and applies it.
Counts == 0..MaxCount
Orderings(S) ==
  {p \in [1..Cardinality(S) -> S] : \A x \in S : \E i \in 1..Cardinality(S) : p[i] = x}
\* every dict from keys among K to values in V, in every insertion order
Dicts(K, V) ==
  UNION { {[i \in 1..Cardinality(S) |-> <<p[i], f[p[i]]>>] :
             p \in Orderings(S), f \in [S -> V]} : S \in SUBSET K }
EliminationInfos == [kills : Counts, sacrifices : Counts, disconnects : Counts]

ChartInputs ==
  {[builder |-> "FacedSurvivorStates", stats |-> [facedSurvivorStatesHistogram |-> h]] :
     h \in Dicts(Survivors, [Members(FacedSurvivorState) -> Counts])}
  \cup
  {[builder |-> "TotalStates", stats |-> [totalSurvivorStatesHistogram |-> h]] :
     h \in Dicts(Members(FacedSurvivorState), Counts)}
  \cup
  {[builder |-> "Eliminations", stats |-> [totalKillerEliminations |-> h]] :
     h \in Dicts(Killers, EliminationInfos)}
  \cup
  {[builder |-> "KillerGames", stats |-> [gamesPlayedWithKiller |-> h]] :
     h \in Dicts(Killers, Counts)}
  \cup
  {[builder |-> "AverageKills", stats |-> [averageKillerKillsPerMatch |-> h]] :
     h \in Dicts(Killers, Counts)}
  \cup
  {[builder |-> "FacedKillerHistogram", stats |-> [facedKillerHistogram |-> h]] :
     h \in Dicts(Killers, Counts)}
  \cup
  {[builder |-> "SurvivorGames", stats |-> [gamesPlayedWithSurvivor |-> h]] :
     h \in Dicts(Survivors, Counts)}
  \cup
  {[builder |-> "MatchResultsHistogram", stats |-> [matchResultsHistogram |-> h]] :
     h \in Dicts(Members(SurvivorMatchResult), Counts)}
  \cup
  {[builder |-> "SurvivorMatchResultsHistogram",
    stats |-> [survivorsMatchResultsHistogram |-> h]] :
     h \in Dicts(Survivors, [Members(SurvivorMatchResult) -> Counts])}

ChartInit == WinInit /\ CtlIdle /\ chartInput \in ChartInputs /\ chartView = NoChart

Build(builder) ==
  /\ chartInput.builder = builder
  /\ chartView = NoChart
  /\ chartView' = ChartView(builder, chartInput.stats)
  /\ UNCHANGED <<chartInput, winVars, ctlVars>>

FacedSurvivorStatesChart == Build("FacedSurvivorStates")
TotalStatesChart == Build("TotalStates")
EliminationsChart == Build("Eliminations")
KillerGamesChart == Build("KillerGames")
AverageKillsChart == Build("AverageKills")
FacedKillerHistogramChart == Build("FacedKillerHistogram")
SurvivorGamesChart == Build("SurvivorGames")
MatchResultsHistogramChart == Build("MatchResultsHistogram")
SurvivorMatchResultsHistogramChart == Build("SurvivorMatchResultsHistogram")

ChartNext ==
  \/ FacedSurvivorStatesChart
  \/ TotalStatesChart
  \/ EliminationsChart
  \/ KillerGamesChart
  \/ AverageKillsChart
  \/ FacedKillerHistogramChart
  \/ SurvivorGamesChart
  \/ MatchResultsHistogramChart
  \/ SurvivorMatchResultsHistogramChart

ChartSpec == ChartInit /\ [][ChartNext]_vars

\* ================================================================ properties
RunIds == 1..Len(runs)
Notifications(r) ==
  {i \in 1..Len(eventQueue) :
     eventQueue[i].sig = "calculationFinished" /\ eventQueue[i].run = r}
\* every mainLayout built so far that is installed or waiting to be installed
BuiltLayouts ==
  {pendingLayouts[i] : i \in 1..Len(pendingLayouts)}
    \cup (IF dlgLayout.kind = "statistics" THEN {dlgLayout} ELSE {})
AnyRaised == \E r \in RunIds : runs[r].raised

ExpectedCalls ==
  << <<"call", "calculateGeneral">>, <<"return", "calculateGeneral">>,
     <<"call", "calculateKillerGeneral">>, <<"return", "calculateKillerGeneral">>,
     <<"call", "calculateSurvivorGeneral">>, <<"return", "calculateSurvivorGeneral">> >>
C4_SequentialOrder ==
  \A r \in RunIds :
    LET t == runs[r]
    IN  /\ Len(t.calls) <= Len(ExpectedCalls)
        /\ t.calls = SubSeq(ExpectedCalls, 1, Len(t.calls))
        /\ (t.emits > 0 => t.calls = ExpectedCalls)
C4_Witness ==
  \E r \in RunIds : runs[r].emits = 1 /\ runs[r].calls = ExpectedCalls

\* C5: while a run of the worker is computing or has not emitted its
\* notification yet, the close button hint is cleared (stated for the
\* behaviours in which every calculator call returns).
C5_CloseDisabledWhileRunning ==
  ~AnyRaised =>
    \A r \in RunIds :
      runs[r].pc \in {"call", "wait", "emit"} => CloseHint \notin windowFlags

\* C6 (as claimed): once the close button has been re-enabled after an exec_,
\* it stays enabled.
C6_StaysEnabledForever ==
  [][(execCalls > 0 /\ CloseHint \in windowFlags) => CloseHint \in windowFlags']_vars
\* C6 (amended): unless a calculator call raises, a cleared close button hint is
\* eventually set again, and once set it is cleared only by a further exec_.
C6_ReenabledUntilNextExec ==
  /\ (CloseHint \notin windowFlags) ~> (CloseHint \in windowFlags \/ AnyRaised)
  /\ [][(CloseHint \in windowFlags /\ CloseHint \notin windowFlags')
          => execCalls' = execCalls + 1]_vars
C6_Witness ==
  /\ execCalls > 0 /\ CloseHint \in windowFlags
  /\ \E r \in RunIds : runs[r].pc = "done" /\ ~runs[r].raised

\* C7: a run in which a calculator call raised emits nothing and posts nothing
\* but the thread's finished signal, and as long as no run has emitted, the
\* window keeps its "Calculating..." layout with the spinner running.
C7_FaultNotReported ==
  /\ \A r \in RunIds :
       runs[r].raised =>
         /\ runs[r].emits = 0
         /\ \A i \in 1..Len(eventQueue) :
              ("run" \in DOMAIN eventQueue[i] /\ eventQueue[i].run = r)
                => eventQueue[i].sig = "finished"
  /\ (AnyRaised /\ \A r \in RunIds : runs[r].emits = 0) =>
       /\ spinning
       /\ dlgLayout = CalculatingLayout
       /\ pendingLayouts = <<>>
C7_Witness ==
  \E r \in RunIds :
    /\ runs[r].raised /\ runs[r].pc = "done"
    /\ spinning /\ dlgLayout = CalculatingLayout

\* C8: at most one execution of the window's worker is outstanding at a time,
\* whenever and however often exec_ is called.
C8_OneTaskOutstanding ==
  Cardinality({r \in RunIds : IsRunning(runs[r])}) <= 1
C8_Witness ==
  execCalls = 2 /\ Len(runs) = 1 /\ runs[1].pc \in {"call", "wait", "emit"}

\* C9: a step of the worker context (one that moves a thread execution on, or
\* ends the process on its unhandled exception) leaves the window (flags,
\* spinner, layout, visibility) as it is; the spinner is stopped and the layout
\* replaced only while a calculationFinished, or the destroyed it scheduled, is
\* being handled by the interactive context.
WorkerMoved == \E r \in RunIds : runs'[r] # runs[r]
C9_OnlyInteractiveMutatesUI ==
  [][/\ ((WorkerMoved \/ aborted' # aborted) => UNCHANGED uiVars)
     /\ ((spinning /\ ~spinning') =>
           (~WorkerMoved /\ eventQueue # <<>>
            /\ Head(eventQueue).sig = "calculationFinished"))
     /\ (<<dlgLayout, pendingLayouts>>' # <<dlgLayout, pendingLayouts>> =>
           (~WorkerMoved /\ eventQueue # <<>>
            /\ Head(eventQueue).sig \in {"calculationFinished", "destroyed"}))]_vars
C9_Witness ==
  /\ \E r \in RunIds : Notifications(r) # {} /\ runs[r].pc = "returned"
  /\ spinning /\ dlgLayout = CalculatingLayout

\* C10: a chart built from a non-empty histogram has the value axis range
\* [0, M], M the largest count of the histogram, which is the largest value over
\* all bar sets of the chart.
InputHistogram ==
  chartInput.stats[CHOOSE f \in DOMAIN chartInput.stats : TRUE]
InputCounts ==
  LET h == InputHistogram
      I == 1..Len(h)
  IN  CASE chartInput.builder = "FacedSurvivorStates" ->
             {h[i][2][m] : i \in I, m \in Members(FacedSurvivorState)}
        [] chartInput.builder = "SurvivorMatchResultsHistogram" ->
             {h[i][2][m] : i \in I, m \in Members(SurvivorMatchResult)}
        [] chartInput.builder = "Eliminations" ->
             UNION {{h[i][2].kills, h[i][2].sacrifices, h[i][2].disconnects} : i \in I}
        [] OTHER -> {h[i][2] : i \in I}
SeriesCounts(view) ==
  UNION {{view.barSets[j].values[i] : i \in 1..Len(view.barSets[j].values)} :
           j \in 1..Len(view.barSets)}
SetMax(S) == CHOOSE m \in S : \A x \in S : x <= m
ChartBuilt == chartView # NoChart /\ ~IsRaised(chartView)
C10_ValueAxisRange ==
  (ChartBuilt /\ InputHistogram # <<>>) =>
     /\ chartView.range = <<0, SetMax(InputCounts)>>
     /\ chartView.range = <<0, SetMax(SeriesCounts(chartView))>>
C10_Witness ==
  /\ ChartBuilt
  /\ chartInput.builder = "FacedSurvivorStates"
  /\ Len(InputHistogram) = 2
  /\ chartView.range[2] > RunningMax(chartView.barSets[1].values, 0)

\* C11: when the histogram feeding a chart is empty the builder does not fault
\* and the value axis ends at a floor of 0 or 1, for every builder.
C11_EmptyHistogramFloor ==
  (chartView # NoChart /\ InputHistogram = <<>>) =>
     /\ ~IsRaised(chartView)
     /\ chartView.range[1] = 0
     /\ chartView.range[2] \in {0, 1}

\* the category set each chart is declared over, in declaration order: the
\* enumeration for the charts by state or result, the character list otherwise
DeclaredKillers == <<KillerA, KillerB>>
DeclaredSurvivors == <<SurvivorA, SurvivorB>>
DeclaredLabels(builder) ==
  CASE builder = "TotalStates" ->
         [i \in 1..Len(FacedSurvivorState) |-> SplitUpperJoin(FacedSurvivorState[i].name)]
    [] builder = "MatchResultsHistogram" ->
         [i \in 1..Len(SurvivorMatchResult) |-> SplitUpperJoin(SurvivorMatchResult[i].name)]
    [] builder \in {"FacedSurvivorStates", "SurvivorGames", "SurvivorMatchResultsHistogram"} ->
         [i \in 1..Len(DeclaredSurvivors) |-> DeclaredSurvivors[i].survivorName]
    [] OTHER ->
         [i \in 1..Len(DeclaredKillers) |-> DeclaredKillers[i].killerAlias]

\* C12: for a histogram over a fixed category set C the category labels are
\* exactly |C| entries, in the declared order of C.
C12_LabelsAreDeclaredCategories ==
  ChartBuilt =>
     /\ Len(chartView.categories) = Len(DeclaredLabels(chartInput.builder))
     /\ chartView.categories = DeclaredLabels(chartInput.builder)

\* the label that names a histogram key on the category axis
LabelOf(key) ==
  IF "killerAlias" \in DOMAIN key THEN key.killerAlias
  ELSE IF "survivorName" \in DOMAIN key THEN key.survivorName
  ELSE SplitUpperJoin(key.name)
\* the count a histogram entry holds for the j-th series of its chart
SeriesCount(entry, j) ==
  CASE chartInput.builder = "FacedSurvivorStates" -> entry[FacedSurvivorState[j]]
    [] chartInput.builder = "SurvivorMatchResultsHistogram" -> entry[SurvivorMatchResult[j]]
    [] chartInput.builder = "Eliminations" -> AsTuple(entry)[j]
    [] OTHER -> entry

\* C13: every value series is aligned positionally with the category labels:
\* the i-th value of a series is the count the histogram holds for the category
\* the i-th label names, whatever the key order of a histogram that holds the
\* categories on the axis.
C13_SeriesAlignedWithLabels ==
  (/\ ChartBuilt
   /\ {LabelOf(InputHistogram[k][1]) : k \in 1..Len(InputHistogram)}
        = {chartView.categories[i] : i \in 1..Len(chartView.categories)}) =>
    \A j \in 1..Len(chartView.barSets) :
      /\ Len(chartView.barSets[j].values) = Len(chartView.categories)
      /\ \A i \in 1..Len(chartView.barSets[j].values) :
            \E k \in 1..Len(InputHistogram) :
               /\ i <= Len(chartView.categories)
               /\ LabelOf(InputHistogram[k][1]) = chartView.categories[i]
               /\ SeriesCount(InputHistogram[k][2], j) = chartView.barSets[j].values[i]
\* the same alignment, for the charts other than the match-results chart
C13_AlignedExceptMatchResults ==
  chartInput.builder # "MatchResultsHistogram" => C13_SeriesAlignedWithLabels

\* ================================================================ icon names
\* The widgets of guicontrols.py look icons up in the Globals tables under a key
\* computed from the displayed name.  A str is the sequence of its characters.
\* longest name the icon-name specification draws
MaxLen == 3

RECURSIVE Concat(_)
\* ''.join(parts)
Concat(parts) == IF parts = <<>> THEN <<>> ELSE Head(parts) \o Concat(Tail(parts))

\* str.lower(), on the letters the names here are written with
LowerChar(c) ==
  CASE c = "T" -> "t"
    [] c = "H" -> "h"
    [] OTHER -> c
StrLower(str) == [i \in 1..Len(str) |-> LowerChar(str[i])]

\* str.replace(old, new) for a one-character old
StrReplace(str, old, new) ==
  Concat([i \in 1..Len(str) |-> IF str[i] = old THEN new ELSE <<str[i]>>])

\* KillerSelect.__init__ / updateSelected: killerAlias.lower().replace(' ', '-')
KillerIconName(killerAlias) == StrReplace(StrLower(killerAlias), " ", <<"-">>)

\* (mutant) the colon becomes a space after the spaces were replaced
AddonIconNameColonToSpace(addonName) ==
  StrReplace(StrReplace(StrReplace(StrReplace(StrLower(addonName),
    " ", <<"-">>), "\"", <<>>), ":", <<" ">>), "'", <<>>)
\* AddonSelectPopup.initPopupGrid: addonName.lower().replace(' ', '-')
\*   .replace('"', '').replace(':', '').replace('\'', '')
AddonIconName(addonName) ==
  StrReplace(StrReplace(StrReplace(StrReplace(StrLower(addonName),
    " ", <<"-">>), "\"", <<>>), ":", <<>>), "'", <<>>)

\* AddonSelection.__showAddonPopup: addonName.lower().replace('"', '')
\*   .replace(" ", '-')
ShownAddonIconName(addonName) ==
  StrReplace(StrReplace(StrLower(addonName), "\"", <<>>), " ", <<"-">>)

\* the characters names are drawn from: a capital, a small letter, and every
\* character one of the replace() calls names
NameChars == {"T", "t", " ", "-", "\"", ":", "'"}
TheHuntress == <<"T", "h", "e", " ", "H", "u", "n", "t", "r", "e", "s", "s">>
Names == UNION {[1..n -> NameChars] : n \in 0..MaxLen} \cup {TheHuntress}

NameInit ==
  /\ WinInit /\ ChartIdle /\ SelectIdle /\ PopupIdle /\ PanelIdle
  /\ nameInput \in [str : Names] /\ iconNames = <<>>

\* the key computed at one call site is recorded under the site's name
HasIconName(site) == \E i \in 1..Len(iconNames) : iconNames[i].site = site
IconNameAt(site) == iconNames[CHOOSE i \in 1..Len(iconNames) : iconNames[i].site = site].key
ComputeIconName(site, of, key) ==
  /\ nameInput # NoName
  /\ ~HasIconName(site)
  /\ iconNames' = Append(iconNames, [site |-> site, of |-> of, key |-> key])
  /\ UNCHANGED <<nameInput, winVars, chartVars, selectVars, popup, panelVars>>

\* the key of a killer's icon (guicontrols.py line 88)
KillerSelectIconName == ComputeIconName("KillerSelect", nameInput.str, KillerIconName(nameInput.str))
\* the key of an addon's icon when the popup grid is built (line 195)
InitPopupGridIconName ==
  ComputeIconName("initPopupGrid", nameInput.str, AddonIconName(nameInput.str))
\* the key of a chosen addon's icon when it is shown on its button (line 279)
ShowAddonPopupIconName ==
  ComputeIconName("showAddonPopup", nameInput.str, ShownAddonIconName(nameInput.str))
\* a key that is itself used as a name: the key of a killer's key
KillerSelectIconNameOfKey ==
  /\ HasIconName("KillerSelect")
  /\ ComputeIconName("KillerSelect.key", IconNameAt("KillerSelect"),
                     KillerIconName(IconNameAt("KillerSelect")))
\* a key that is itself used as a name: the key of an addon's grid key
InitPopupGridIconNameOfKey ==
  /\ HasIconName("initPopupGrid")
  /\ ComputeIconName("initPopupGrid.key", IconNameAt("initPopupGrid"),
                     AddonIconName(IconNameAt("initPopupGrid")))

NameNext ==
  \/ KillerSelectIconName
  \/ InitPopupGridIconName
  \/ ShowAddonPopupIconName
  \/ KillerSelectIconNameOfKey
  \/ InitPopupGridIconNameOfKey

NameSpec == NameInit /\ [][NameNext]_vars

\* C14: name canonicalization (lowercase, spaces to hyphens, quote and colon
\* characters stripped) is idempotent, the key of a key is the key itself, and
\* the key of "The Huntress" is "the-huntress".
C14_CanonicalizeIdempotent ==
  /\ \A i \in 1..Len(iconNames) :
       /\ iconNames[i].site \in {"KillerSelect.key", "initPopupGrid.key"} =>
            iconNames[i].key = iconNames[i].of
       /\ (iconNames[i].of = TheHuntress
             /\ iconNames[i].site \in {"KillerSelect", "initPopupGrid"}) =>
            iconNames[i].key = <<"t", "h", "e", "-", "h", "u", "n", "t", "r", "e", "s", "s">>
  /\ \A i \in 1..Len(iconNames) :
       iconNames[i].site = "initPopupGrid" =>
          \A j \in 1..Len(iconNames[i].key) :
             iconNames[i].key[j] \notin {"T", "H", " ", "\"", ":", "'"}
C14_Witness ==
  /\ nameInput # NoName
  /\ nameInput.str = TheHuntress
  /\ HasIconName("initPopupGrid.key") /\ HasIconName("KillerSelect.key")
  /\ IconNameAt("initPopupGrid.key") # nameInput.str
C14_WitnessStripped ==
  /\ nameInput # NoName /\ Len(nameInput.str) = 3 /\ nameInput.str[2] = ":"
  /\ HasIconName("initPopupGrid.key")
  /\ Len(IconNameAt("initPopupGrid.key")) = 2

\* C19: for every addon name, the icon-table key computed when the chosen addon
\* is shown on its slot button equals the key computed for it when the popup
\* grid was built.
C19_SameKeyInGridAndOnButton ==
  (HasIconName("initPopupGrid") /\ HasIconName("showAddonPopup")) =>
     IconNameAt("showAddonPopup") = IconNameAt("initPopupGrid")

\* ========================================================= carousel selectors
\* KillerSelect and FacedSurvivorSelect (both an ItemSelect): a list of items,
\* the index of the current one and the selected item, moved by the '<' and '>'
\* buttons (prev, next) and by the dropdown (activated -> selectFromIndex).
\* longest item list a selector is constructed over
MaxItems == 3

\* the list handed to a selector: n distinct objects
ItemList(n) == [i \in 1..n |-> [item |-> i]]

\* list[index]: Python counts from 0, and from the end for a negative index
ValidIndex(list, index) == -Len(list) <= index /\ index < Len(list)
PyItem(list, index) == list[(index % Len(list)) + 1]

\* (mutant) the policy of util.clamp: the nearer end for a value outside
\* minValue..maxValue
Clamp(value, minValue, maxValue) ==
  IF value < minValue THEN minValue ELSE IF value > maxValue THEN maxValue ELSE value
\* util.clamp_reverse, imported by guicontrols as clampReverse: the opposite
\* end for a value outside minValue..maxValue
ClampReverse(value, minValue, maxValue) ==
  IF value > maxValue THEN minValue ELSE IF value < minValue THEN maxValue ELSE value

\* no exception has left a handler of the widget
NoFault == "none"

\* ItemSelect.__init__ (then the subclass stores its list): nothing selected
ItemSelectNew(widget, items) ==
  [widget |-> widget, items |-> items, currentIndex |-> 0, selectedItem |-> None,
   label |-> [text |-> "Select an item"], emitted |-> None, value |-> <<>>,
   fault |-> NoFault]

\* updateSelected: the name label shows the selected item, if there is one
UpdateSelected(w) ==
  IF w.selectedItem = None THEN w ELSE [w EXCEPT !.label = w.selectedItem]

\* KillerSelect.selectFromIndex: select, emit selectionChanged (a listener sees
\* the new item with the index as it is at that moment), store the index
KillerSelectFromIndex(w, index) ==
  IF ~ValidIndex(w.items, index) THEN [w EXCEPT !.fault = "IndexError"]
  ELSE UpdateSelected(
         [w EXCEPT !.selectedItem = PyItem(w.items, index),
                   !.emitted = [item |-> PyItem(w.items, index),
                                currentIndex |-> w.currentIndex],
                   !.currentIndex = index])

\* _itemsPresent
ItemsPresent(w) == Len(w.items) > 0

\* (mutant) the index moves but selectFromIndex is not called
KillerUpdateIndexOnly(w, value) ==
  IF ~ItemsPresent(w) THEN w
  ELSE UpdateSelected([w EXCEPT !.currentIndex = ClampReverse(value, 0, Len(w.items) - 1)])
\* KillerSelect.__updateIndex
KillerUpdateIndex(w, value) ==
  IF ~ItemsPresent(w) THEN w
  ELSE LET moved == [w EXCEPT !.currentIndex = ClampReverse(value, 0, Len(w.items) - 1)]
           selected == KillerSelectFromIndex(moved, moved.currentIndex)
       IN  IF selected.fault # NoFault THEN selected ELSE UpdateSelected(selected)

\* FacedSurvivorSelect.selectFromIndex
FacedSurvivorSelectFromIndex(w, index) ==
  IF ~ValidIndex(w.items, index) THEN [w EXCEPT !.fault = "IndexError"]
  ELSE UpdateSelected([w EXCEPT !.selectedItem = PyItem(w.items, index),
                                !.currentIndex = index])

\* (mutant) the requested index is stored as it is
FacedSurvivorUpdateIndexUnclamped(w, value) ==
  IF ~ItemsPresent(w) THEN w
  ELSE UpdateSelected([w EXCEPT !.currentIndex = value])
\* FacedSurvivorSelect.__updateIndex
FacedSurvivorUpdateIndex(w, value) ==
  IF ~ItemsPresent(w) THEN w
  ELSE UpdateSelected([w EXCEPT !.currentIndex = ClampReverse(value, 0, Len(w.items) - 1)])

\* the argument of the last call is kept with the widget, as a one-element list
Requested(w, value) == [w EXCEPT !.value = <<value>>]
\* a widget that exists and whose last handler did not raise
Usable(w) == w # NoWidget /\ w.fault = NoFault

SelectInit == WinInit /\ ChartIdle /\ NameIdle /\ PopupIdle /\ PanelIdle /\ SelectIdle

\* KillerSelect.__init__: ItemSelect.__init__, the list, then selectFromIndex(0)
KillerSelectNew(n) ==
  /\ killerSelect = NoWidget
  /\ killerSelect' = KillerSelectFromIndex(ItemSelectNew("KillerSelect", ItemList(n)), 0)
  /\ UNCHANGED <<survivorSelect, winVars, chartVars, nameVars, popup, panelVars>>

\* KillerSelect.next, the slot of the '>' button
KillerNext ==
  /\ Usable(killerSelect)
  /\ killerSelect' = KillerUpdateIndex(Requested(killerSelect, killerSelect.currentIndex + 1),
                                       killerSelect.currentIndex + 1)
  /\ UNCHANGED <<survivorSelect, winVars, chartVars, nameVars, popup, panelVars>>

\* KillerSelect.prev, the slot of the '<' button
KillerPrev ==
  /\ Usable(killerSelect)
  /\ killerSelect' = KillerUpdateIndex(Requested(killerSelect, killerSelect.currentIndex - 1),
                                       killerSelect.currentIndex - 1)
  /\ UNCHANGED <<survivorSelect, winVars, chartVars, nameVars, popup, panelVars>>

\* itemSelectionComboBox.activated(index) -> KillerSelect.selectFromIndex
KillerActivated(index) ==
  /\ Usable(killerSelect)
  /\ index \in 0..(Len(killerSelect.items) - 1)
  /\ killerSelect' = KillerSelectFromIndex(Requested(killerSelect, index), index)
  /\ UNCHANGED <<survivorSelect, winVars, chartVars, nameVars, popup, panelVars>>

\* FacedSurvivorSelect.__init__
FacedSurvivorSelectNew(n) ==
  /\ survivorSelect = NoWidget
  /\ survivorSelect' =
       FacedSurvivorSelectFromIndex(ItemSelectNew("FacedSurvivorSelect", ItemList(n)), 0)
  /\ UNCHANGED <<killerSelect, winVars, chartVars, nameVars, popup, panelVars>>

\* FacedSurvivorSelect.next
FacedSurvivorNext ==
  /\ Usable(survivorSelect)
  /\ survivorSelect' =
       FacedSurvivorUpdateIndex(Requested(survivorSelect, survivorSelect.currentIndex + 1),
                                survivorSelect.currentIndex + 1)
  /\ UNCHANGED <<killerSelect, winVars, chartVars, nameVars, popup, panelVars>>

\* FacedSurvivorSelect.prev
FacedSurvivorPrev ==
  /\ Usable(survivorSelect)
  /\ survivorSelect' =
       FacedSurvivorUpdateIndex(Requested(survivorSelect, survivorSelect.currentIndex - 1),
                                survivorSelect.currentIndex - 1)
  /\ UNCHANGED <<killerSelect, winVars, chartVars, nameVars, popup, panelVars>>

\* itemSelectionComboBox.activated(index) -> FacedSurvivorSelect.selectFromIndex
FacedSurvivorActivated(index) ==
  /\ Usable(survivorSelect)
  /\ index \in 0..(Len(survivorSelect.items) - 1)
  /\ survivorSelect' = FacedSurvivorSelectFromIndex(Requested(survivorSelect, index), index)
  /\ UNCHANGED <<killerSelect, winVars, chartVars, nameVars, popup, panelVars>>

SelectNext ==
  \/ \E n \in 0..MaxItems : KillerSelectNew(n)
  \/ KillerNext
  \/ KillerPrev
  \/ \E index \in 0..(MaxItems - 1) : KillerActivated(index)
  \/ \E n \in 0..MaxItems : FacedSurvivorSelectNew(n)
  \/ FacedSurvivorNext
  \/ FacedSurvivorPrev
  \/ \E index \in 0..(MaxItems - 1) : FacedSurvivorActivated(index)

SelectSpec == SelectInit /\ [][SelectNext]_vars

\* a selector constructed over a list of at least one item
OverItems(w) == w # NoWidget /\ Len(w.items) >= 1
\* the index the last call asked for, once a call was made
LastRequested(w) == w.value[1]
WrapsAround(w) ==
  (OverItems(w) /\ w.value # <<>>) =>
     /\ w.fault = NoFault
     /\ LastRequested(w) = Len(w.items) => w.currentIndex = 0
     /\ LastRequested(w) = -1 => w.currentIndex = Len(w.items) - 1
     /\ (0 <= LastRequested(w) /\ LastRequested(w) < Len(w.items)) =>
           w.currentIndex = LastRequested(w)

\* C15: over a list of N >= 1 items, requesting index N (next() at the last
\* index) selects index 0, requesting index -1 (prev() at index 0) selects index
\* N-1, neither faults, and a requested index inside 0..N-1 is selected as it is.
C15_RequestWrapsAround ==
  /\ WrapsAround(killerSelect)
  /\ WrapsAround(survivorSelect)
  /\ (OverItems(killerSelect) /\ killerSelect.value # <<>>) =>
        killerSelect.selectedItem = PyItem(killerSelect.items, killerSelect.currentIndex)
C15_Witness ==
  /\ OverItems(killerSelect) /\ OverItems(survivorSelect)
  /\ Len(killerSelect.items) = MaxItems
  /\ killerSelect.value = <<MaxItems>> /\ killerSelect.currentIndex = 0
  /\ survivorSelect.value = <<-1>>
  /\ survivorSelect.currentIndex = Len(survivorSelect.items) - 1
  /\ Len(survivorSelect.items) >= 2

\* C16: for KillerSelect and FacedSurvivorSelect over N >= 1 items, after any
\* sequence of next(), prev() and selectFromIndex(i), 0 <= i < N, currentIndex
\* is within 0..N-1 and no handler faulted indexing the list.
C16_IndexInRange ==
  \A w \in {killerSelect, survivorSelect} :
     OverItems(w) => /\ w.fault = NoFault
                     /\ w.currentIndex \in 0..(Len(w.items) - 1)
C16_Witness ==
  /\ OverItems(killerSelect) /\ OverItems(survivorSelect)
  /\ survivorSelect.value = <<Len(survivorSelect.items)>>
  /\ killerSelect.value = <<-1>>
  /\ Len(survivorSelect.items) = 2 /\ Len(killerSelect.items) = 2

\* C17: for a KillerSelect over a non-empty list, after construction and after
\* every next(), prev() or selectFromIndex(i), getSelectedItem() returns
\* killers[currentIndex].
C17_KillerSelectedIsCurrent ==
  OverItems(killerSelect) =>
     killerSelect.selectedItem = PyItem(killerSelect.items, killerSelect.currentIndex)
C17_Witness ==
  /\ OverItems(killerSelect)
  /\ Len(killerSelect.items) = 2
  /\ killerSelect.value = <<2>>
  /\ killerSelect.selectedItem = [item |-> 1]
  /\ killerSelect.emitted = [item |-> [item |-> 1], currentIndex |-> 0]

\* C18: for a FacedSurvivorSelect over a non-empty list, after construction and
\* after every next(), prev() or selectFromIndex(i), getSelectedItem() returns
\* survivors[currentIndex].
C18_SurvivorSelectedIsCurrent ==
  OverItems(survivorSelect) =>
     survivorSelect.selectedItem = PyItem(survivorSelect.items, survivorSelect.currentIndex)

\* ====================================================== grid selection popups
\* AddonSelectPopup and OfferingSelectPopup (both a GridViewSelectionPopup): one
\* icon button per item in a grid; a click selects the button's item and accepts
\* the dialog, selectAddon / selectOffering shows the dialog and returns the
\* choice.
\* longest item list a popup is constructed over
MaxGridItems == 6
\* the column count both popups pass to GridViewSelectionPopup.__init__
Columns == 5

\* GridViewSelectionPopup.__init__ (then the subclass stores its list)
GridViewSelectionPopupNew(widget, columns, items) ==
  [widget |-> widget, columns |-> columns, items |-> items, buttons |-> <<>>,
   selectedItem |-> None, showing |-> FALSE, result |-> "none",
   returned |-> Unset, clicked |-> <<>>]

\* initPopupGrid: for index, item in enumerate(items), a button at row
\* index // columns, column index % columns whose click is bound to the item
InitPopupGrid(p) ==
  [p EXCEPT !.buttons =
     [b \in 1..Len(p.items) |->
        [row |-> (b - 1) \div p.columns, column |-> (b - 1) % p.columns,
         item |-> p.items[b]]]]

\* (mutant) every click handler reads the loop variable after the loop
LastLoopItem(p, b) == p.items[Len(p.items)]
\* partial(self.selectItem, item): the item bound when button b was created
BoundItem(p, b) == p.buttons[b].item

\* selectItem(item) during exec_: the item is stored and accept() ends exec_
\* with Accepted
SelectItem(p, item) ==
  [p EXCEPT !.selectedItem = item, !.showing = FALSE, !.result = "Accepted"]

\* the popup is dismissed (Escape, or a click outside it): exec_ ends with
\* Rejected
RejectPopup(p) == [p EXCEPT !.showing = FALSE, !.result = "Rejected"]

\* exec_ begins: the dialog is shown; no button was clicked in this showing yet
ShowPopup(p) == [p EXCEPT !.showing = TRUE, !.clicked = <<>>]

\* (mutant) selectedItem is returned whatever exec_ returned
SelectReturnStale(p) == p.selectedItem
\* selectAddon / selectOffering:
\* return self.selectedItem if self.exec_() == QDialog.Accepted else None
SelectReturn(p) == IF p.result = "Accepted" THEN p.selectedItem ELSE None

\* the value selectAddon / selectOffering hands back once exec_ has ended
Returning(p) == [p EXCEPT !.returned = SelectReturn(p)]

PopupInit == WinInit /\ ChartIdle /\ NameIdle /\ SelectIdle /\ PanelIdle /\ PopupIdle

\* AddonSelectPopup.__init__
AddonSelectPopupNew(n) ==
  /\ popup = NoWidget
  /\ popup' = InitPopupGrid(GridViewSelectionPopupNew("AddonSelectPopup", Columns, ItemList(n)))
  /\ UNCHANGED <<winVars, chartVars, nameVars, selectVars, panelVars>>

\* OfferingSelectPopup.__init__
OfferingSelectPopupNew(n) ==
  /\ popup = NoWidget
  /\ popup' = InitPopupGrid(GridViewSelectionPopupNew("OfferingSelectPopup", Columns, ItemList(n)))
  /\ UNCHANGED <<winVars, chartVars, nameVars, selectVars, panelVars>>

\* selectAddon / selectOffering up to exec_: the dialog is shown
PopupExec ==
  /\ popup # NoWidget /\ ~popup.showing
  /\ popup' = ShowPopup(popup)
  /\ UNCHANGED <<winVars, chartVars, nameVars, selectVars, panelVars>>

\* the user clicks button b of the shown grid
ClickButton(b) ==
  /\ popup # NoWidget /\ popup.showing
  /\ b \in 1..Len(popup.buttons)
  /\ popup' = Returning(SelectItem([popup EXCEPT !.clicked = <<b>>], BoundItem(popup, b)))
  /\ UNCHANGED <<winVars, chartVars, nameVars, selectVars, panelVars>>

\* the user dismisses the popup (Escape, or a click outside it): exec_ ends
\* with Rejected and selectAddon / selectOffering returns None
DismissPopup ==
  /\ popup # NoWidget /\ popup.showing
  /\ popup' = Returning(RejectPopup(popup))
  /\ UNCHANGED <<winVars, chartVars, nameVars, selectVars, panelVars>>

PopupNext ==
  \/ \E n \in 0..MaxGridItems : AddonSelectPopupNew(n)
  \/ \E n \in 0..MaxGridItems : OfferingSelectPopupNew(n)
  \/ PopupExec
  \/ \E b \in 1..MaxGridItems : ClickButton(b)
  \/ DismissPopup

PopupSpec == PopupInit /\ [][PopupNext]_vars

\* C20: a grid popup built from K items with 5 columns places item i at row
\* i div 5 and column i mod 5, one button per item and no two in one cell, and a
\* click on the button of item i sets selectedItem to item i and accepts the
\* dialog.
C20_GridPlacementAndClick ==
  popup # NoWidget =>
    /\ Len(popup.buttons) = Len(popup.items)
    /\ \A i \in 0..(Len(popup.items) - 1) :
         /\ popup.buttons[i + 1].item = popup.items[i + 1]
         /\ popup.buttons[i + 1].row = i \div 5
         /\ popup.buttons[i + 1].column = i % 5
    /\ \A a, b \in 1..Len(popup.buttons) :
         (popup.buttons[a].row = popup.buttons[b].row
            /\ popup.buttons[a].column = popup.buttons[b].column) => a = b
    /\ popup.clicked # <<>> =>
         /\ popup.selectedItem = popup.items[popup.clicked[1]]
         /\ ~popup.showing
         /\ popup.result = "Accepted"
C20_Witness ==
  /\ popup # NoWidget
  /\ Len(popup.items) = MaxGridItems
  /\ popup.buttons[MaxGridItems].row >= 1
  /\ popup.clicked = <<2>>
  /\ popup.selectedItem = [item |-> 2]

\* the count of an EliminationInfo that a series of the eliminations chart is
\* named after
NamedCount(info, label) ==
  CASE label = "Sacrifices" -> info.sacrifices
    [] label = "Kills" -> info.kills
    [] label = "Disconnects" -> info.disconnects

\* C21: in the eliminations chart the series named "Sacrifices" holds, for each
\* killer in histogram key order, that killer's sacrifices count, the series
\* named "Kills" its kills count and the series named "Disconnects" its
\* disconnects count.
C21_SeriesHoldNamedCount ==
  (ChartBuilt /\ chartInput.builder = "Eliminations") =>
     /\ {chartView.barSets[j].label : j \in 1..Len(chartView.barSets)}
          = {"Sacrifices", "Kills", "Disconnects"}
     /\ \A j \in 1..Len(chartView.barSets) :
          /\ Len(chartView.barSets[j].values) = Len(InputHistogram)
          /\ \A i \in 1..Len(InputHistogram) :
               chartView.barSets[j].values[i]
                 = NamedCount(InputHistogram[i][2], chartView.barSets[j].label)

\* C22: at every emission of KillerSelect.selectionChanged, whether caused by
\* next(), prev() or a dropdown activation, the emitted item is
\* killers[currentIndex] as a listener reads it during the emission.
C22_EmittedItemIsCurrent ==
  (OverItems(killerSelect) /\ killerSelect.emitted # None) =>
     killerSelect.emitted.item
       = PyItem(killerSelect.items, killerSelect.emitted.currentIndex)

\* C23: constructing a KillerSelect over an empty killer list does not fault and
\* leaves the selector with no selection (selectedItem None, currentIndex 0),
\* and next() and prev() on it change nothing.
C23_EmptyListConstructs ==
  (killerSelect # NoWidget /\ killerSelect.items = <<>>) =>
     /\ killerSelect.fault = NoFault
     /\ killerSelect.selectedItem = None
     /\ killerSelect.currentIndex = 0
     /\ killerSelect.emitted = None

\* C26: a reused grid popup never leaks a stale choice: selectAddon /
\* selectOffering returns the item clicked during that showing when the dialog
\* is accepted and None when that showing is dismissed, even if an earlier
\* showing was accepted with some item.
C26_NoStaleChoice ==
  (popup # NoWidget /\ ~popup.showing /\ popup.result # "none") =>
     /\ popup.result = "Accepted" =>
          (popup.clicked # <<>> /\ popup.returned = popup.items[popup.clicked[1]])
     /\ popup.result = "Rejected" =>
          (popup.clicked = <<>> /\ popup.returned = None)
C26_Witness ==
  /\ popup # NoWidget /\ ~popup.showing
  /\ popup.result = "Rejected"
  /\ popup.selectedItem = [item |-> 1]
  /\ popup.returned = None

\* ========================================================= selection widgets
\* AddonSelection, PerkSelection and OfferingSelection: slot buttons that show
\* the widget's own popup and record what was chosen; MapSelect; and
\* FacedSurvivorSelectionWindow.  One widget is constructed per behaviour.
PanelInit == WinInit /\ ChartIdle /\ NameIdle /\ SelectIdle /\ PopupIdle /\ PanelIdle

\* a QLabel's text: its initial caption, or the name of an item
Caption(text) == [text |-> text]
NameLabel(item) == [nameOf |-> item]

\* ------------------------------------------------------------ AddonSelection
\* AddonSelection.__init__: both slots empty, both labels 'No addon'
AddonSelectionInit(addons) ==
  [widget |-> "AddonSelection", addons |-> addons,
   selectedAddons |-> [index \in 0..1 |-> None],
   labels |-> [index \in 0..1 |-> Caption("No addon")],
   popupSelect |-> InitPopupGrid(GridViewSelectionPopupNew("AddonSelectPopup", Columns, addons)),
   index |-> <<>>]

\* __showAddonPopup once selectAddon() has returned: the slot records the
\* result, and the icon and the label are set if it is an addon.  (The addon
\* names are taken to be ones ADDON_ICONS has a key for.)
ShowAddonPopupReturned(w, shown) ==
  LET addon == shown.returned
      index == w.index[1]
  IN  [w EXCEPT !.popupSelect = shown, !.index = <<>>,
                !.selectedAddons[index] = addon,
                !.labels[index] = IF addon # None THEN NameLabel(addon) ELSE @]

AddonSelectionNew(n) ==
  /\ PanelIdle
  /\ addonSelection' = AddonSelectionInit(ItemList(n))
  /\ UNCHANGED <<perkSelection, offeringSelection, mapSelect, survivorWindow,
                 winVars, chartVars, nameVars, selectVars, popup>>

\* a slot button is clicked: __showAddonPopup(btn, lbl, index) up to exec_
ShowAddonPopup(index) ==
  /\ addonSelection # NoWidget /\ ~addonSelection.popupSelect.showing
  /\ addonSelection' = [addonSelection EXCEPT !.popupSelect = ShowPopup(@),
                                              !.index = <<index>>]
  /\ UNCHANGED <<perkSelection, offeringSelection, mapSelect, survivorWindow,
                 winVars, chartVars, nameVars, selectVars, popup>>

\* the user clicks button b of the shown addon grid
AddonClicked(b) ==
  /\ addonSelection # NoWidget /\ addonSelection.popupSelect.showing
  /\ b \in 1..Len(addonSelection.popupSelect.buttons)
  /\ LET p == addonSelection.popupSelect
     IN  addonSelection' =
           ShowAddonPopupReturned(addonSelection,
             Returning(SelectItem([p EXCEPT !.clicked = <<b>>], BoundItem(p, b))))
  /\ UNCHANGED <<perkSelection, offeringSelection, mapSelect, survivorWindow,
                 winVars, chartVars, nameVars, selectVars, popup>>

\* the user dismisses the shown addon popup
AddonDismissed ==
  /\ addonSelection # NoWidget /\ addonSelection.popupSelect.showing
  /\ addonSelection' =
       ShowAddonPopupReturned(addonSelection,
                              Returning(RejectPopup(addonSelection.popupSelect)))
  /\ UNCHANGED <<perkSelection, offeringSelection, mapSelect, survivorWindow,
                 winVars, chartVars, nameVars, selectVars, popup>>

\* ------------------------------------------------------------- PerkSelection
\* PerkSelection.__init__: four empty slots labelled 'No perk'; the popup is a
\* PerkPopupSelect, whose initPopupGrid is a stub that creates no button
PerkSelectionInit(perks) ==
  [widget |-> "PerkSelection", perks |-> perks,
   selectedPerks |-> [index \in 0..3 |-> None],
   labels |-> [index \in 0..3 |-> Caption("No perk")],
   popupSelection |-> GridViewSelectionPopupNew("PerkPopupSelect", Columns, perks),
   index |-> <<>>]

\* QDialog.accepted, the signal: what selectPerk compares exec_'s result with
AcceptedSignal == "QDialog.accepted"
\* PerkPopupSelect.selectPerk:
\* return self.selectedItem if self.exec_() == QDialog.accepted else None
SelectPerkReturn(p) == IF p.result = AcceptedSignal THEN p.selectedItem ELSE None

\* __selectPerkAndUpdateUI once selectPerk() has returned
SelectPerkAndUpdateUIReturned(w, shown) ==
  LET perk == SelectPerkReturn(shown)
      index == w.index[1]
  IN  [w EXCEPT !.popupSelection = [shown EXCEPT !.returned = perk],
                !.labels[index] = IF perk # None THEN NameLabel(perk) ELSE @,
                !.selectedPerks[index] = IF perk # None THEN perk ELSE @]

PerkSelectionNew(n) ==
  /\ PanelIdle
  /\ perkSelection' = PerkSelectionInit(ItemList(n))
  /\ UNCHANGED <<addonSelection, offeringSelection, mapSelect, survivorWindow,
                 winVars, chartVars, nameVars, selectVars, popup>>

\* a slot button is clicked: __selectPerkAndUpdateUI(btn, label, index) up to
\* exec_
SelectPerkAndUpdateUI(index) ==
  /\ perkSelection # NoWidget /\ ~perkSelection.popupSelection.showing
  /\ perkSelection' = [perkSelection EXCEPT !.popupSelection = ShowPopup(@),
                                            !.index = <<index>>]
  /\ UNCHANGED <<addonSelection, offeringSelection, mapSelect, survivorWindow,
                 winVars, chartVars, nameVars, selectVars, popup>>

\* selectItem(perks[k]) is called on the shown popup and accepts it (no button
\* of the stub grid does; the slot is the one the addon and offering grids
\* connect)
PerkSelected(k) ==
  /\ perkSelection # NoWidget /\ perkSelection.popupSelection.showing
  /\ k \in 1..Len(perkSelection.perks)
  /\ perkSelection' =
       SelectPerkAndUpdateUIReturned(perkSelection,
         SelectItem(perkSelection.popupSelection, perkSelection.perks[k]))
  /\ UNCHANGED <<addonSelection, offeringSelection, mapSelect, survivorWindow,
                 winVars, chartVars, nameVars, selectVars, popup>>

\* the user dismisses the shown perk popup
PerkDismissed ==
  /\ perkSelection # NoWidget /\ perkSelection.popupSelection.showing
  /\ perkSelection' =
       SelectPerkAndUpdateUIReturned(perkSelection,
                                     RejectPopup(perkSelection.popupSelection))
  /\ UNCHANGED <<addonSelection, offeringSelection, mapSelect, survivorWindow,
                 winVars, chartVars, nameVars, selectVars, popup>>

\* ----------------------------------------------------------------- MapSelect
\* most realms a MapSelect is constructed over, and most maps of one realm
MaxRealms == 2
MaxMaps == 2

\* the realm list handed to MapSelect: realm r holds counts[r] maps
RealmList(counts) ==
  [r \in 1..Len(counts) |->
     [realmName |-> r, maps |-> [m \in 1..counts[r] |-> [realm |-> r, mapName |-> m]]]]
RealmLists == UNION {{RealmList(counts) : counts \in [1..k -> 0..MaxMaps]} : k \in 0..MaxRealms}

\* MapSelect.__init__: no map selected, the maps of realms[0] current
MapSelectInit(realms) ==
  IF realms = <<>>
  THEN [widget |-> "MapSelect", realms |-> realms, currentMaps |-> <<>>,
        selectedMap |-> None, mapNameLabel |-> Caption("No map selected"),
        fault |-> "IndexError"]
  ELSE [widget |-> "MapSelect", realms |-> realms, currentMaps |-> realms[1].maps,
        selectedMap |-> None, mapNameLabel |-> Caption("No map selected"),
        fault |-> NoFault]

\* __updateUI: the name label shows the selected map, if there is one
MapUpdateUI(w) ==
  IF w.selectedMap # None THEN [w EXCEPT !.mapNameLabel = NameLabel(w.selectedMap)] ELSE w

\* __switchRealmMaps(index)
SwitchRealmMapsTo(w, index) ==
  LET realm == PyItem(w.realms, index)
      switched == [w EXCEPT !.currentMaps = realm.maps]
  IN  IF Len(switched.currentMaps) > 0
      THEN MapUpdateUI([switched EXCEPT !.selectedMap = switched.currentMaps[1]])
      ELSE switched

MapSelectNew(realms) ==
  /\ PanelIdle
  /\ mapSelect' = MapSelectInit(realms)
  /\ UNCHANGED <<addonSelection, perkSelection, offeringSelection, survivorWindow,
                 winVars, chartVars, nameVars, selectVars, popup>>

\* realmSelectionComboBox.activated(index) -> __switchRealmMaps
SwitchRealmMaps(index) ==
  /\ Usable(mapSelect)
  /\ index \in 0..(Len(mapSelect.realms) - 1)
  /\ mapSelect' = SwitchRealmMapsTo(mapSelect, index)
  /\ UNCHANGED <<addonSelection, perkSelection, offeringSelection, survivorWindow,
                 winVars, chartVars, nameVars, selectVars, popup>>

\* --------------------------------------------------------- OfferingSelection
\* OfferingSelection.__init__: nothing selected, the label 'No offering'
OfferingSelectionInit(offerings) ==
  [widget |-> "OfferingSelection", offerings |-> offerings,
   popupSelection |->
     InitPopupGrid(GridViewSelectionPopupNew("OfferingSelectPopup", Columns, offerings)),
   selectedItem |-> None, offeringLabel |-> Caption("No offering")]

\* __showOfferingPopup once selectOffering() has returned: the icon and the
\* label are set if an offering was chosen
ShowOfferingPopupReturned(w, shown) ==
  LET offering == shown.returned
  IN  [w EXCEPT !.popupSelection = shown,
                !.offeringLabel = IF offering # None THEN NameLabel(offering) ELSE @]

OfferingSelectionNew(n) ==
  /\ PanelIdle
  /\ offeringSelection' = OfferingSelectionInit(ItemList(n))
  /\ UNCHANGED <<addonSelection, perkSelection, mapSelect, survivorWindow,
                 winVars, chartVars, nameVars, selectVars, popup>>

\* the selection button is clicked: __showOfferingPopup(btn, label) up to exec_
ShowOfferingPopup ==
  /\ offeringSelection # NoWidget /\ ~offeringSelection.popupSelection.showing
  /\ offeringSelection' = [offeringSelection EXCEPT !.popupSelection = ShowPopup(@)]
  /\ UNCHANGED <<addonSelection, perkSelection, mapSelect, survivorWindow,
                 winVars, chartVars, nameVars, selectVars, popup>>

\* the user clicks button b of the shown offering grid
OfferingClicked(b) ==
  /\ offeringSelection # NoWidget /\ offeringSelection.popupSelection.showing
  /\ b \in 1..Len(offeringSelection.popupSelection.buttons)
  /\ LET p == offeringSelection.popupSelection
     IN  offeringSelection' =
           ShowOfferingPopupReturned(offeringSelection,
             Returning(SelectItem([p EXCEPT !.clicked = <<b>>], BoundItem(p, b))))
  /\ UNCHANGED <<addonSelection, perkSelection, mapSelect, survivorWindow,
                 winVars, chartVars, nameVars, selectVars, popup>>

\* the user dismisses the shown offering popup
OfferingDismissed ==
  /\ offeringSelection # NoWidget /\ offeringSelection.popupSelection.showing
  /\ offeringSelection' =
       ShowOfferingPopupReturned(offeringSelection,
                                 Returning(RejectPopup(offeringSelection.popupSelection)))
  /\ UNCHANGED <<addonSelection, perkSelection, mapSelect, survivorWindow,
                 winVars, chartVars, nameVars, selectVars, popup>>

\* ---------------------------------------------- FacedSurvivorSelectionWindow
MaxSide == 4

\* acceptableSizes
AcceptableSizes == {<<1, 4>>, <<4, 1>>, <<2, 2>>}

\* range(4): the keys of self.selections
SelectionKeys == 0..3

\* (mutant) the loops nested the other way round
CellColumnFirst(k, cols) == [row |-> k % cols, col |-> k \div cols]
\* the (i, j) of step k (from 0) of `for i in range(rows): for j in range(cols)`
Cell(k, cols) == [row |-> k \div cols, col |-> k % cols]

\* the nested placement loop, flattened: step k takes self.selections[k] and
\* adds it at its cell; the loop stops with a KeyError at the first k that is
\* not a key
RECURSIVE PlaceSelections(_, _, _, _)
PlaceSelections(w, rows, cols, k) ==
  IF k >= rows * cols THEN w
  ELSE IF k \notin SelectionKeys THEN [w EXCEPT !.fault = "KeyError"]
  ELSE PlaceSelections(
         [w EXCEPT !.placed = Append(@, [index |-> k, row |-> Cell(k, cols).row,
                                         col |-> Cell(k, cols).col])],
         rows, cols, k + 1)

\* FacedSurvivorSelectionWindow.__init__
FacedSurvivorSelectionWindowInit(survivors, size) ==
  LET w == [widget |-> "FacedSurvivorSelectionWindow", size |-> size,
            survivors |-> survivors, selections |-> <<>>, placed |-> <<>>,
            fault |-> NoFault]
      selection == FacedSurvivorSelectFromIndex(
                     ItemSelectNew("FacedSurvivorSelect", survivors), 0)
  IN  IF size \notin AcceptableSizes THEN [w EXCEPT !.fault = "ValueError"]
      ELSE IF selection.fault # NoFault THEN [w EXCEPT !.fault = selection.fault]
      ELSE PlaceSelections([w EXCEPT !.selections = [n \in 1..Cardinality(SelectionKeys) |-> selection]],
                           size[1], size[2], 0)

FacedSurvivorSelectionWindowNew(n, size) ==
  /\ PanelIdle
  /\ survivorWindow' = FacedSurvivorSelectionWindowInit(ItemList(n), size)
  /\ UNCHANGED <<addonSelection, perkSelection, offeringSelection, mapSelect,
                 winVars, chartVars, nameVars, selectVars, popup>>

PanelNext ==
  \/ \E n \in 0..MaxItems : AddonSelectionNew(n)
  \/ \E index \in 0..1 : ShowAddonPopup(index)
  \/ \E b \in 1..MaxItems : AddonClicked(b)
  \/ AddonDismissed
  \/ \E n \in 0..MaxItems : PerkSelectionNew(n)
  \/ \E index \in 0..3 : SelectPerkAndUpdateUI(index)
  \/ \E k \in 1..MaxItems : PerkSelected(k)
  \/ PerkDismissed
  \/ \E n \in 0..MaxItems : OfferingSelectionNew(n)
  \/ ShowOfferingPopup
  \/ \E b \in 1..MaxItems : OfferingClicked(b)
  \/ OfferingDismissed
  \/ \E realms \in RealmLists : MapSelectNew(realms)
  \/ \E index \in 0..(MaxRealms - 1) : SwitchRealmMaps(index)
  \/ \E n \in 0..MaxItems, size \in (0..MaxSide) \X (0..MaxSide) :
        FacedSurvivorSelectionWindowNew(n, size)

PanelSpec == PanelInit /\ [][PanelNext]_vars

\* C24: in AddonSelection, after any sequence of popup interactions on either
\* slot, each slot's label shows the addon's name when selectedAddons[index] is
\* an addon and 'No addon' when it is None.
C24_LabelMatchesSelection ==
  (addonSelection # NoWidget /\ ~addonSelection.popupSelect.showing) =>
     \A index \in 0..1 :
        addonSelection.labels[index] =
          IF addonSelection.selectedAddons[index] = None THEN Caption("No addon")
          ELSE NameLabel(addonSelection.selectedAddons[index])

\* C25: in PerkSelection, when the perk popup is accepted with perk P for slot
\* i, selectPerk returns P and selectedPerks[i] becomes P; when the popup is
\* dismissed, selectPerk returns None.
C25_AcceptedPerkIsRecorded ==
  (perkSelection # NoWidget /\ ~perkSelection.popupSelection.showing
     /\ perkSelection.index # <<>>) =>
     LET p == perkSelection.popupSelection
     IN  /\ p.result = "Accepted" =>
              /\ p.returned = p.selectedItem
              /\ perkSelection.selectedPerks[perkSelection.index[1]] = p.selectedItem
         /\ p.result = "Rejected" => p.returned = None

\* C27: in MapSelect, after any sequence of realm switches, selectedMap is None
\* or one of currentMaps, the maps of the currently selected realm; switching to
\* a realm without maps does not leave a map of the previous realm selected.
C27_SelectedMapIsCurrent ==
  Usable(mapSelect) =>
     \/ mapSelect.selectedMap = None
     \/ \E m \in 1..Len(mapSelect.currentMaps) :
           mapSelect.currentMaps[m] = mapSelect.selectedMap

\* C28: in OfferingSelection, after the user accepts the popup with offering O
\* the widget's recorded selection (selectedItem) is O, the offering named on
\* its label; a dismissal leaves both as they were.
C28_RecordedOfferingIsShown ==
  (offeringSelection # NoWidget /\ ~offeringSelection.popupSelection.showing) =>
     /\ offeringSelection.popupSelection.result = "Accepted" =>
          offeringSelection.selectedItem = offeringSelection.popupSelection.returned
     /\ offeringSelection.offeringLabel =
          IF offeringSelection.selectedItem = None THEN Caption("No offering")
          ELSE NameLabel(offeringSelection.selectedItem)

C29_WitnessRefused ==
  /\ survivorWindow # NoWidget
  /\ survivorWindow.fault = "ValueError"
  /\ survivorWindow.size = <<3, 1>>

====
